---- MODULE Spec2Model ----
(***************************************************************************)
(* Model of terkin/network/lora.py: the LoRaManager that joins a LoRaWAN   *)
(* network over the air (OTAA), waits for the join, opens one raw socket   *)
(* and sends / receives payloads through it.                               *)
(*                                                                         *)
(* The manager is a single thread of control.  A caller invokes one public *)
(* method at a time (pc = "idle"); wait_for_lora_join is modelled step by  *)
(* step because its inner loop need not end.  The radio capability         *)
(* (network.LoRa and the socket module) is the environment: every call     *)
(* made into it is appended to the log `calls`, and its answers are chosen *)
(* nondeterministically within the behaviour of the chosen radio stub.     *)
(*                                                                         *)
(* Python values None / True / False and a missing attribute are the       *)
(* strings "None", "True", "False" and "unset".                            *)
(***************************************************************************)
EXTENDS Integers, Sequences, FiniteSets

VARIABLES
    otaa_settings,  \* self.otaa_settings: the hex credentials and the datarate
    socket_bound,   \* does the global name `socket` resolve inside lora.py
    radio_kind,     \* which radio stub answers has_joined()
    radio_joined,   \* the last answer the radio gave to has_joined()
    socket_kind,    \* which socket stub the radio hands out
    socket_buffer,  \* the bytes an echoing socket holds for the next recvfrom
    socket_out,     \* the socket's answer to the last call's send / recvfrom
    slept,          \* sleep after the last call's send / recvfrom, in 0.1 s
    lora,           \* self.lora
    lora_joined,    \* self.lora_joined
    lora_socket,    \* self.lora_socket
    socket,         \* self.socket
    pc,             \* position of the thread of control
    in_start,       \* the running wait_for_lora_join was called by start()
    attempts,       \* argument of the running wait_for_lora_join
    i,              \* number of iterations of the for loop entered so far
    seen_joined,    \* has_joined() answered True during the running wait
    polls_after,    \* has_joined() queries made after the first True answer
    calls,          \* log of the calls made into the radio capability
    mark,           \* Len(calls) when the current / last public call began
    entry_joined,   \* self.lora_joined when the current / last call began
    entry_ready,    \* self.lora_socket when the current / last call began
    last,           \* outcome of the last public call, once it has ended
    ncalls          \* number of public calls made so far

vars == <<otaa_settings, socket_bound, radio_kind, radio_joined, socket_kind,
          socket_buffer, socket_out, slept, lora,
          lora_joined, lora_socket, socket, pc, in_start, attempts, i,
          seen_joined, polls_after, calls, mark, entry_joined, entry_ready,
          last, ncalls>>

(***************************************************************************)
(* Bounds of the model.                                                    *)
(***************************************************************************)
MaxCalls == 3        \* public calls per behaviour
MaxAttempts == 3     \* largest budget a caller passes to wait_for_lora_join
MaxCount == 2        \* saturation of the polls_after counter

(***************************************************************************)
(* Program constants.                                                      *)
(***************************************************************************)
StartAttempts == 42  \* budget start() passes to wait_for_lora_join
RecvLen == 256       \* buffer size lora_receive passes to recvfrom
SendBlinks == 2      \* range(0,2): sleeps lora_send makes after the send
BlinkSleep == 1      \* time.sleep(0.1), in tenths of a second
ReceiveSleep == 60   \* time.sleep(6), in tenths of a second

(***************************************************************************)
(* binascii.unhexlify on a string given as a sequence of characters.       *)
(***************************************************************************)
None == <<"None">>   \* the value of otaa_settings.get(key) for a missing key

HexDigits == <<"0", "1", "2", "3", "4", "5", "6", "7",
               "8", "9", "a", "b", "c", "d", "e", "f">>
HexUpper == <<"0", "1", "2", "3", "4", "5", "6", "7",
              "8", "9", "A", "B", "C", "D", "E", "F">>

IsHex(c) == \E k \in 1..16 : HexDigits[k] = c \/ HexUpper[k] = c

HexVal(c) == (CHOOSE k \in 1..16 : HexDigits[k] = c \/ HexUpper[k] = c) - 1

RECURSIVE HexBytes(_)
HexBytes(s) ==
    IF Len(s) < 2 THEN <<>>
    ELSE <<16 * HexVal(s[1]) + HexVal(s[2])>> \o HexBytes(SubSeq(s, 3, Len(s)))

unhexlify(s) ==
    IF Len(s) % 2 = 1 \/ \E k \in 1..Len(s) : ~IsHex(s[k])
    THEN [ok |-> FALSE, bytes |-> <<>>]
    ELSE [ok |-> TRUE, bytes |-> HexBytes(s)]

(***************************************************************************)
(* Inputs.                                                                 *)
(***************************************************************************)
AppEuis == { <<"7", "0", "B", "3">>, <<"Z", "Z">> }
AppKeys == { <<"0", "f">>, <<"A">> }
DevEuis == { None, <<"A", "A", "1", "1">>, <<>>, <<"A", "1", "g", "0">> }
Datarates == { 0, 5 }
Payloads == { <<>>, <<1, 2>> }
Ports == { 0, 1 }
RadioKinds == { "never", "flaky", "monotone" }
SocketFaults == { "none", "socket", "setsockopt", "setblocking" }
SocketKinds == { "echo", "any" }

\* The settings a manager is constructed with: at most one credential is
\* undecodable, an undecodable application credential comes without a
\* device identifier, and the datarate 0 comes with decodable application
\* credentials and no device identifier.
Settings ==
    { s \in [application_eui : AppEuis, application_key : AppKeys,
             device_eui : DevEuis, datarate : Datarates] :
        /\ (~unhexlify(s.application_eui).ok
                \/ ~unhexlify(s.application_key).ok)
              => /\ s.device_eui = None
                 /\ s.datarate = 5
                 /\ (unhexlify(s.application_eui).ok
                        \/ unhexlify(s.application_key).ok)
        /\ s.datarate = 0 => s.device_eui = None }

Bool2Py(b) == IF b THEN "True" ELSE "False"

Sat(n) == IF n < MaxCount THEN n + 1 ELSE n

(***************************************************************************)
(* Entries of the radio call log.  arg is a sequence of byte sequences.    *)
(***************************************************************************)
RadioCall(op, arg) == [op |-> op, arg |-> arg]

NoSocket == [id |-> 0, dr |-> -1, blocking |-> TRUE]

Result(op, outcome, ret) ==
    [op |-> op, outcome |-> outcome, ret |-> ret,
     sent |-> 0, rx |-> <<>>, port |-> 0]

(***************************************************************************)
(* start_lora_join: the radio calls it makes and how it ends.              *)
(***************************************************************************)
\* A join that ignores the device identifier.
JoinAuth_AlwaysTwo(dev_eui, app_eui, app_key) ==
    <<unhexlify(app_eui).bytes, unhexlify(app_key).bytes>>

JoinAuth(dev_eui, app_eui, app_key) ==
    IF dev_eui = None
    THEN <<unhexlify(app_eui).bytes, unhexlify(app_key).bytes>>
    ELSE <<unhexlify(dev_eui).bytes, unhexlify(app_eui).bytes,
           unhexlify(app_key).bytes>>

start_lora_join(s) ==
    LET init == <<RadioCall("LoRa", <<>>)>>
        auth == JoinAuth(s.device_eui, s.application_eui, s.application_key)
    IN  IF ~unhexlify(s.application_eui).ok
        THEN [outcome |-> "ValueError", calls |-> init]
        ELSE IF ~unhexlify(s.application_key).ok
        THEN [outcome |-> "ValueError", calls |-> init]
        ELSE IF s.device_eui # None /\ ~unhexlify(s.device_eui).ok
        THEN [outcome |-> "ValueError", calls |-> init]
        ELSE [outcome |-> "ok", calls |-> init \o <<RadioCall("join", auth)>>]

(***************************************************************************)
(* create_lora_socket: the radio calls it makes, the attributes it leaves  *)
(* and how it ends.  `fault` is the socket call at which the radio raises. *)
(* lora.py uses the name `socket` without importing it: where nothing else *)
(* binds that name (bound = FALSE) line 83 raises NameError, after line 82 *)
(* has set lora_socket to None.                                            *)
(***************************************************************************)
\* An open that reports the socket as created as soon as it has the handle.
create_lora_socket_EarlyFlag(bound, fault, old, id, datarate) ==
    LET c1 == <<RadioCall("socket", <<>>)>>
        c2 == c1 \o <<RadioCall("setsockopt", <<(<<datarate>>)>>)>>
        c3 == c2 \o <<RadioCall("setblocking", <<(<<0>>)>>)>>
        s1 == [id |-> id, dr |-> -1, blocking |-> TRUE]
        s2 == [s1 EXCEPT !.dr = datarate]
        s3 == [s2 EXCEPT !.blocking = FALSE]
    IN  IF ~bound
        THEN [outcome |-> "NameError", calls |-> <<>>, socket |-> old,
              lora_socket |-> "None"]
        ELSE IF fault = "socket"
        THEN [outcome |-> "OSError", calls |-> c1, socket |-> old,
              lora_socket |-> "None"]
        ELSE IF fault = "setsockopt"
        THEN [outcome |-> "OSError", calls |-> c2, socket |-> s1,
              lora_socket |-> "True"]
        ELSE IF fault = "setblocking"
        THEN [outcome |-> "OSError", calls |-> c3, socket |-> s2,
              lora_socket |-> "True"]
        ELSE [outcome |-> "ok", calls |-> c3, socket |-> s3,
              lora_socket |-> "True"]

create_lora_socket(bound, fault, old, id, datarate) ==
    LET c1 == <<RadioCall("socket", <<>>)>>
        c2 == c1 \o <<RadioCall("setsockopt", <<(<<datarate>>)>>)>>
        c3 == c2 \o <<RadioCall("setblocking", <<(<<0>>)>>)>>
        s1 == [id |-> id, dr |-> -1, blocking |-> TRUE]
        s2 == [s1 EXCEPT !.dr = datarate]
        s3 == [s2 EXCEPT !.blocking = FALSE]
    IN  IF ~bound
        THEN [outcome |-> "NameError", calls |-> <<>>, socket |-> old,
              lora_socket |-> "None"]
        ELSE IF fault = "socket"
        THEN [outcome |-> "OSError", calls |-> c1, socket |-> old,
              lora_socket |-> "None"]
        ELSE IF fault = "setsockopt"
        THEN [outcome |-> "OSError", calls |-> c2, socket |-> s1,
              lora_socket |-> "None"]
        ELSE IF fault = "setblocking"
        THEN [outcome |-> "OSError", calls |-> c3, socket |-> s2,
              lora_socket |-> "None"]
        ELSE [outcome |-> "ok", calls |-> c3, socket |-> s3,
              lora_socket |-> "True"]

(***************************************************************************)
(* The radio's answers to has_joined().                                    *)
(***************************************************************************)
Answers(kind, joined) ==
    IF kind = "never" THEN {FALSE}
    ELSE IF kind = "monotone" /\ joined THEN {TRUE}
    ELSE BOOLEAN

\* A loop that runs one iteration too many.
LoopContinues_Inclusive(n, budget) == n <= budget

\* A loop that runs one iteration too few.
LoopContinues_OffByOne(n, budget) == n < budget - 1

LoopContinues(n, budget) == n < budget

\* A wait that reports joined once any query of the call has said so.
JoinResult_Seen(answer, seen) == seen \/ answer

\* Line 67: the stored result is the answer of the query after the loop.
JoinResult(answer, seen) == answer

\* A loop body that asks the radio to join again.
not_joined_yet_Rejoin(s) ==
    <<RadioCall("join", JoinAuth(s.device_eui, s.application_eui,
                                 s.application_key))>>

\* Lines 61-64: the radio calls of the body of the while loop (it only
\* sleeps and logs).
not_joined_yet(s) == <<>>

\* A start() that opens the socket whenever the wait has returned.
OpensSocket_NotNone(joined) == joined # "None"

\* start() line 28: `if self.lora_joined:`
OpensSocket(joined) == joined = "True"

(***************************************************************************)
(* The socket stub.  An echoing socket accepts every byte it is given and  *)
(* hands the same bytes back on the next recvfrom; any other socket        *)
(* accepts some prefix and delivers whatever it has, possibly nothing.     *)
(***************************************************************************)
Accepted(kind, payload) ==
    IF kind = "echo" THEN {Len(payload)} ELSE 0..Len(payload)

Delivered(kind, buffer) ==
    IF kind = "echo" THEN {buffer} ELSE Payloads

NoAnswer == [accepted |-> 0, rx |-> <<>>, port |-> 0]

\* A send that reports the length of the payload.
lora_send_return_Len(payload, success) == Len(payload)

\* lora_send lines 103, 109: `return success`.
lora_send_return(payload, success) == success

\* lora_send lines 104-106: two sleeps of 0.1 s.
SendDelay(payload) == SendBlinks * BlinkSleep

\* A receive that sleeps only when data came in.
ReceiveDelay_OnlyData(rx) == IF rx # <<>> THEN ReceiveSleep ELSE 0

\* lora_receive line 117: time.sleep(6), outside the `if rx:`.
ReceiveDelay(rx) == ReceiveSleep

\* A join that drops the device identifier from the settings once used.
settings_after_Pop(op, s) ==
    IF op \in {"start", "start_lora_join"}
    THEN [s EXCEPT !.device_eui = None]
    ELSE s

\* The methods only read self.otaa_settings.
settings_after(op, s) == s

Init ==
    /\ otaa_settings \in Settings
    /\ socket_bound \in BOOLEAN
    /\ radio_kind \in RadioKinds
    /\ radio_joined = FALSE
    /\ socket_kind \in SocketKinds
    /\ socket_buffer = <<>>
    /\ socket_out = NoAnswer
    /\ slept = 0
    /\ lora = "unset"
    /\ lora_joined = "unset"
    /\ lora_socket = "unset"
    /\ socket = NoSocket
    /\ pc = "idle"
    /\ in_start = FALSE
    /\ attempts = 0
    /\ i = 0
    /\ seen_joined = FALSE
    /\ polls_after = 0
    /\ calls = <<>>
    /\ mark = 0
    /\ entry_joined = "unset"
    /\ entry_ready = "unset"
    /\ last = Result("none", "ok", "None")
    /\ ncalls = 0

env == <<otaa_settings, socket_bound, radio_kind, socket_kind>>

sock == <<socket_buffer, socket_out, slept>>

\* A public call begins: what every method records on entry.
Enter ==
    /\ pc = "idle"
    /\ ncalls < MaxCalls
    /\ ncalls' = ncalls + 1
    /\ mark' = Len(calls)
    /\ entry_joined' = lora_joined
    /\ entry_ready' = lora_socket
    /\ UNCHANGED <<socket_bound, radio_kind, socket_kind>>

\* The call is no send and no receive: it leaves the socket's buffer alone,
\* gets no transfer answer and makes no signalling sleep.
NoTransfer ==
    /\ socket_out' = NoAnswer
    /\ slept' = 0
    /\ UNCHANGED socket_buffer

\* No wait_for_lora_join is running in this call: the locals and the
\* bookkeeping of an earlier one are gone.
NoWait ==
    /\ in_start' = FALSE
    /\ attempts' = 0
    /\ i' = 0
    /\ seen_joined' = FALSE
    /\ polls_after' = 0

\* wait_for_lora_join line 58 and the start of its loop.
WaitEntry(n, by_start) ==
    /\ lora_joined' = "None"
    /\ attempts' = n
    /\ i' = 0
    /\ seen_joined' = FALSE
    /\ polls_after' = 0
    /\ in_start' = by_start
    /\ pc' = "for"

(***************************************************************************)
(* start(), up to the point where wait_for_lora_join(42) begins to loop.   *)
(***************************************************************************)
CallStart ==
    /\ Enter
    /\ LET e == start_lora_join(otaa_settings)
       IN  /\ calls' = calls \o e.calls
           /\ lora' = "LoRa"
           /\ IF e.outcome = "ok"
              THEN /\ WaitEntry(StartAttempts, TRUE)
                   /\ last' = Result("none", "ok", "None")
              ELSE /\ last' = Result("start", e.outcome, "None")
                   /\ NoWait
                   /\ UNCHANGED <<lora_joined, pc>>
    /\ otaa_settings' = settings_after("start", otaa_settings)
    /\ NoTransfer
    /\ UNCHANGED <<radio_joined, lora_socket, socket>>

CallStartLoraJoin ==
    /\ Enter
    /\ LET e == start_lora_join(otaa_settings)
       IN  /\ calls' = calls \o e.calls
           /\ lora' = "LoRa"
           /\ last' = Result("start_lora_join", e.outcome, "None")
    /\ otaa_settings' = settings_after("start_lora_join", otaa_settings)
    /\ NoWait
    /\ NoTransfer
    /\ UNCHANGED <<radio_joined, lora_joined, lora_socket, socket, pc>>

(***************************************************************************)
(* wait_for_lora_join(n) called by the caller.  Without self.lora the      *)
(* first has_joined() raises AttributeError, after line 58 has run.        *)
(***************************************************************************)
CallWaitForLoraJoin ==
    /\ Enter
    /\ \E n \in 0..MaxAttempts :
          IF lora = "unset"
          THEN /\ lora_joined' = "None"
               /\ last' = Result("wait_for_lora_join", "AttributeError", "None")
               /\ NoWait
               /\ UNCHANGED pc
          ELSE /\ WaitEntry(n, FALSE)
               /\ last' = Result("none", "ok", "None")
    /\ otaa_settings' = settings_after("wait_for_lora_join", otaa_settings)
    /\ NoTransfer
    /\ UNCHANGED <<radio_joined, lora, lora_socket, socket, calls>>

\* Line 59: the for loop takes its next value or ends.
ForStep ==
    /\ pc = "for"
    /\ IF LoopContinues(i, attempts)
       THEN i' = i + 1 /\ pc' = "while"
       ELSE i' = i /\ pc' = "final"
    /\ UNCHANGED <<env, sock, radio_joined, lora, lora_joined, lora_socket,
                   socket,
                   in_start, attempts, seen_joined, polls_after, calls, mark,
                   entry_joined, entry_ready, last, ncalls>>

\* One has_joined() query and its bookkeeping.
Query(b) ==
    /\ b \in Answers(radio_kind, radio_joined)
    /\ radio_joined' = b
    /\ seen_joined' = (seen_joined \/ b)
    /\ polls_after' = IF seen_joined THEN Sat(polls_after) ELSE polls_after

\* Line 60: the condition of the while loop.
WhileStep ==
    /\ pc = "while"
    /\ \E b \in BOOLEAN :
          /\ Query(b)
          /\ pc' = IF b THEN "for" ELSE "sleep"
    /\ UNCHANGED <<env, sock, lora, lora_joined, lora_socket, socket, in_start,
                   attempts, i, calls, mark, entry_joined, entry_ready, last,
                   ncalls>>

\* Lines 61-64: the body of the while loop.
SleepStep ==
    /\ pc = "sleep"
    /\ pc' = "while"
    /\ calls' = calls \o not_joined_yet(otaa_settings)
    /\ UNCHANGED <<env, sock, radio_joined, lora, lora_joined, lora_socket,
                   socket,
                   in_start, attempts, i, seen_joined, polls_after,
                   mark, entry_joined, entry_ready, last, ncalls>>

\* Lines 67-77: the query after the loop, and the return.
FinalStep ==
    /\ pc = "final"
    /\ \E b \in BOOLEAN :
          /\ Query(b)
          /\ lora_joined' = Bool2Py(JoinResult(b, seen_joined))
          /\ IF in_start
             THEN pc' = "after_wait" /\ UNCHANGED last
             ELSE /\ pc' = "idle"
                  /\ last' = Result("wait_for_lora_join", "ok",
                                    Bool2Py(JoinResult(b, seen_joined)))
    /\ UNCHANGED <<env, sock, lora, lora_socket, socket, in_start, attempts,
                   i,
                   calls, mark, entry_joined, entry_ready, ncalls>>

\* start() lines 26-31, after wait_for_lora_join has returned.
StartTail ==
    /\ pc = "after_wait"
    /\ pc' = "idle"
    /\ IF OpensSocket(lora_joined)
       THEN \E f \in SocketFaults :
              LET e == create_lora_socket(socket_bound, f, socket,
                                          ncalls, otaa_settings.datarate)
              IN  /\ calls' = calls \o e.calls
                  /\ socket' = e.socket
                  /\ lora_socket' = e.lora_socket
                  /\ last' = Result("start", e.outcome, "None")
       ELSE /\ last' = Result("start", "ok", "None")
            /\ UNCHANGED <<calls, socket, lora_socket>>
    /\ UNCHANGED <<env, sock, radio_joined, lora, lora_joined, in_start,
                   attempts,
                   i, seen_joined, polls_after, mark, entry_joined,
                   entry_ready, ncalls>>

CallCreateLoraSocket ==
    /\ Enter
    /\ \E f \in SocketFaults :
          LET e == create_lora_socket(socket_bound, f, socket, ncalls + 1,
                                      otaa_settings.datarate)
          IN  /\ calls' = calls \o e.calls
              /\ socket' = e.socket
              /\ lora_socket' = e.lora_socket
              /\ last' = Result("create_lora_socket", e.outcome,
                                IF e.outcome = "ok" THEN "True" ELSE "None")
    /\ otaa_settings' = settings_after("create_lora_socket", otaa_settings)
    /\ NoWait
    /\ NoTransfer
    /\ UNCHANGED <<radio_joined, lora, lora_joined, pc>>

(***************************************************************************)
(* lora_send(payload): without self.socket the attribute lookup raises; a  *)
(* radio fault raised by socket.send propagates before any sleep.          *)
(***************************************************************************)
CallLoraSend ==
    /\ Enter
    /\ \E payload \in Payloads :
          IF socket = NoSocket
          THEN /\ last' = Result("lora_send", "AttributeError", "None")
               /\ slept' = 0
               /\ socket_out' = NoAnswer
               /\ UNCHANGED <<calls, socket_buffer>>
          ELSE /\ calls' = Append(calls, RadioCall("send", <<payload>>))
               /\ \/ /\ last' = Result("lora_send", "OSError", "None")
                     /\ slept' = 0
                     /\ socket_out' = NoAnswer
                     /\ UNCHANGED socket_buffer
                  \/ \E n \in Accepted(socket_kind, payload) :
                        /\ socket_out' = [NoAnswer EXCEPT !.accepted = n]
                        /\ socket_buffer' = IF socket_kind = "echo"
                                            THEN payload ELSE socket_buffer
                        /\ last' = [Result("lora_send", "ok", "int") EXCEPT
                                      !.sent = lora_send_return(payload, n)]
                        /\ slept' = SendDelay(payload)
    /\ otaa_settings' = settings_after("lora_send", otaa_settings)
    /\ NoWait
    /\ UNCHANGED <<radio_joined, lora, lora_joined, lora_socket, socket, pc>>

(***************************************************************************)
(* lora_receive(): recvfrom(256) yields what the radio has, possibly       *)
(* nothing; a radio fault propagates before the sleep.                     *)
(***************************************************************************)
CallLoraReceive ==
    /\ Enter
    /\ IF socket = NoSocket
       THEN /\ last' = Result("lora_receive", "AttributeError", "None")
            /\ slept' = 0
            /\ socket_out' = NoAnswer
            /\ UNCHANGED <<calls, socket_buffer>>
       ELSE /\ calls' = Append(calls, RadioCall("recvfrom", <<(<<RecvLen>>)>>))
            /\ \/ /\ last' = Result("lora_receive", "OSError", "None")
                  /\ slept' = 0
                  /\ socket_out' = NoAnswer
                  /\ UNCHANGED socket_buffer
               \/ \E rx \in Delivered(socket_kind, socket_buffer),
                     port \in Ports :
                     /\ socket_out' = [NoAnswer EXCEPT !.rx = rx,
                                                         !.port = port]
                     /\ socket_buffer' = <<>>
                     /\ last' = [Result("lora_receive", "ok", "tuple")
                                   EXCEPT !.rx = rx, !.port = port]
                     /\ slept' = ReceiveDelay(rx)
    /\ otaa_settings' = settings_after("lora_receive", otaa_settings)
    /\ NoWait
    /\ UNCHANGED <<radio_joined, lora, lora_joined, lora_socket, socket, pc>>

Step ==
    \/ ForStep
    \/ WhileStep
    \/ SleepStep
    \/ FinalStep
    \/ StartTail

Next ==
    \/ CallStart
    \/ CallStartLoraJoin
    \/ CallWaitForLoraJoin
    \/ CallCreateLoraSocket
    \/ CallLoraSend
    \/ CallLoraReceive
    \/ Step

Spec == Init /\ [][Next]_vars

\* The thread of control keeps running: a call in progress takes its steps.
FairSpec == Spec /\ WF_vars(Step)

TypeOK ==
    /\ pc \in {"idle", "for", "while", "sleep", "final", "after_wait"}
    /\ i \in 0..StartAttempts
    /\ lora_joined \in {"unset", "None", "True", "False"}
    /\ lora_socket \in {"unset", "None", "True"}

(***************************************************************************)
(* Vocabulary of the properties.                                           *)
(***************************************************************************)
WaitRunning == pc \in {"for", "while", "sleep", "final"}

\* The names of the radio calls made since the current / last call began.
OpsSince == [k \in 1..(Len(calls) - mark) |-> calls[mark + k].op]

SocketOps == {"socket", "setsockopt", "setblocking", "send", "recvfrom"}

Ended(op) == pc = "idle" /\ last.op = op

\* C1: wait_for_join terminates whatever the radio answers: a wait that is
\* running always comes to its return.
C1_WaitTerminates == WaitRunning ~> ~WaitRunning

\* C2: wait_for_join never makes more than `attempts` outer iterations, and
\* against a radio that never reports joined it returns false after exactly
\* `attempts` iterations.
C2_NeverJoinedReturnsFalse ==
    /\ [](i <= attempts)
    /\ (WaitRunning /\ radio_kind = "never")
          ~> (~WaitRunning /\ lora_joined = "False" /\ i = attempts)

\* C3: wait_for_join returns true on the iteration at which has_joined()
\* first reports joined and makes no further has_joined() query after it.
C3_StopsAtFirstJoined ==
    seen_joined =>
        /\ polls_after = 0
        /\ (~WaitRunning => lora_joined = "True")

\* C4: in every run of start() the radio sees begin_join first, then the
\* wait with a budget of 42, then open; open is called only when the wait
\* reported joined and never when it reported not joined.
C4_StartOrder ==
    /\ (in_start /\ (WaitRunning \/ pc = "after_wait")) =>
          /\ attempts = 42
          /\ OpsSince = <<"LoRa", "join">>
    /\ Ended("start") =>
          /\ \A k \in DOMAIN OpsSince :
                OpsSince[k] \in SocketOps =>
                   /\ lora_joined = "True"
                   /\ attempts = 42 /\ i = 42
                   /\ k > 2 /\ OpsSince[1] = "LoRa" /\ OpsSince[2] = "join"
          /\ lora_joined # "True" => \A k \in DOMAIN OpsSince :
                                        OpsSince[k] \notin SocketOps
          /\ last.outcome = "ValueError" => OpsSince = <<"LoRa">>

\* start() ran to its end through all three steps and opened the socket.
C4_Witness ==
    /\ Ended("start") /\ last.outcome = "ok" /\ lora_socket = "True"
    /\ OpsSince = <<"LoRa", "join", "socket", "setsockopt", "setblocking">>

\* C5: send and receive called before Ready fail and make no call to the
\* radio capability or its socket.
C5_NotReadyFailsFast ==
    ((Ended("lora_send") \/ Ended("lora_receive")) /\ entry_ready # "True") =>
        /\ last.outcome # "ok"
        /\ Len(calls) = mark

\* C6: open called while the join state is not Joined fails and makes no
\* call into the radio capability.
C6_OpenNeedsJoined ==
    (Ended("create_lora_socket") /\ entry_joined # "True") =>
        /\ last.outcome # "ok"
        /\ Len(calls) = mark

\* C7: when the budget is used up without a joined status, start() returns
\* the error JoinFailed to its caller, after exactly that many iterations.
C7_StartReportsJoinFailed ==
    (Ended("start") /\ last.outcome = "ok" /\ lora_joined = "False") =>
        /\ last.ret = "JoinFailed"
        /\ i = attempts

\* C8: if the radio reported joined on some poll within the budget and
\* socket creation does not fail, start() calls open and reaches Ready.
C8_JoinedReachesReady ==
    (Ended("start") /\ last.outcome = "ok" /\ seen_joined /\ socket_bound) =>
        /\ lora_socket = "True"
        /\ "socket" \in {OpsSince[k] : k \in DOMAIN OpsSince}

\* The bytes each credential of the input sets stands for.
Decoded(hex) ==
    CASE hex = <<"7", "0", "B", "3">> -> <<112, 179>>
      [] hex = <<"0", "f">> -> <<15>>
      [] hex = <<"A", "A", "1", "1">> -> <<170, 17>>
      [] OTHER -> <<>>

\* The join requests among the radio calls made since the call began.
JoinsSince ==
    SelectSeq(SubSeq(calls, mark + 1, Len(calls)), LAMBDA c : c.op = "join")

JoinDone ==
    \/ Ended("start_lora_join") /\ last.outcome = "ok"
    \/ in_start /\ (WaitRunning \/ pc = "after_wait")

\* C9: begin_join issues exactly one join request per call, with the
\* 2-tuple (app_eui, app_key) when the credentials have no device
\* identifier and the 3-tuple (dev_eui, app_eui, app_key) when they have.
C9_JoinVariant ==
    /\ JoinDone =>
          /\ Len(JoinsSince) = 1
          /\ JoinsSince[1].arg =
                IF otaa_settings.device_eui = None
                THEN <<Decoded(otaa_settings.application_eui),
                       Decoded(otaa_settings.application_key)>>
                ELSE <<Decoded(otaa_settings.device_eui),
                       Decoded(otaa_settings.application_eui),
                       Decoded(otaa_settings.application_key)>>
    /\ Len(JoinsSince) <= 1

\* begin_join has issued the 3-tuple join for the device identifier "AA11".
C9_Witness ==
    /\ Ended("start_lora_join") /\ last.outcome = "ok"
    /\ otaa_settings.device_eui = <<"A", "A", "1", "1">>
    /\ Len(JoinsSince) = 1
    /\ Len(JoinsSince[1].arg) = 3
    /\ JoinsSince[1].arg[1] = <<170, 17>>

\* C10: when a credential fails to decode, begin_join fails before any call
\* to the radio capability: no radio initialisation, no join request.
C10_InvalidCredentialsBeforeRadio ==
    ((Ended("start_lora_join") \/ Ended("start"))
        /\ last.outcome = "ValueError") => Len(calls) = mark

(***************************************************************************)
(* The join state of the data model, read off the manager's attributes.    *)
(***************************************************************************)
JoinState ==
    IF lora_joined = "True" THEN "Joined"
    ELSE IF lora_joined = "False" THEN "JoinFailed"
    ELSE IF lora = "unset" THEN "NotStarted"
    ELSE "Joining"

JoinRank ==
    CASE JoinState = "NotStarted" -> 0
      [] JoinState = "Joining" -> 1
      [] OTHER -> 2

\* C11: the join state only moves forward along NotStarted -> Joining ->
\* Joined or JoinFailed: no step leads to an earlier state, and Joined and
\* JoinFailed are never left.
C11_JoinStateForward ==
    [][/\ JoinRank' >= JoinRank
       /\ JoinRank = 2 => JoinState' = JoinState]_vars

\* The socket() requests in the whole radio call log.
SocketRequests == SelectSeq(calls, LAMBDA c : c.op = "socket")

\* C12: the socket handle is created at most once and exists only while
\* the join state is Joined.
C12_SocketOnceAndOnlyJoined ==
    /\ socket # NoSocket => JoinState = "Joined"
    /\ Len(SocketRequests) <= 1

\* C13: the join attempt counter is incremented once per wait cycle and
\* never exceeds the attempt budget.
C13_CounterWithinBudget ==
    /\ [](i <= attempts)
    /\ [][/\ (pc = "for" /\ pc' = "while") => i' = i + 1
          /\ (WaitRunning /\ ~(pc = "for" /\ pc' = "while")) => i' = i]_vars

\* A wait has used up its whole budget of at least one attempt.
C13_Witness == pc = "final" /\ attempts >= 1 /\ i = attempts

\* C16: the manager issues no join request besides the one begin_join makes
\* inside start(): the wait makes no radio call other than has_joined(), and
\* send / receive make no call other than their own transfer.
C16_NoRejoin ==
    /\ (WaitRunning /\ ~in_start) => OpsSince = <<>>
    /\ (Ended("wait_for_lora_join") /\ last.outcome = "ok") => OpsSince = <<>>
    /\ (in_start /\ (WaitRunning \/ pc = "after_wait")) =>
          /\ Len(JoinsSince) = 1
          /\ Len(OpsSince) = 2
    /\ Ended("start") => Len(JoinsSince) <= 1
    /\ Ended("lora_send") => \A k \in DOMAIN OpsSince : OpsSince[k] = "send"
    /\ Ended("lora_receive") =>
          \A k \in DOMAIN OpsSince : OpsSince[k] = "recvfrom"

\* Inside start() an attempt has failed (the radio said not joined, the
\* loop body has run) and the wait polls again.
C16_Witness ==
    /\ in_start /\ pc = "while" /\ i >= 2 /\ ~radio_joined
    /\ Len(JoinsSince) = 1

\* C19: whenever wait_for_lora_join returns, its return value equals the
\* stored lora_joined and both equal the answer of the one has_joined()
\* query made after the loop; while the loop runs lora_joined is None.
C19_ResultIsFinalQuery ==
    /\ WaitRunning => lora_joined = "None"
    /\ (Ended("wait_for_lora_join") /\ last.outcome = "ok") =>
          /\ last.ret = lora_joined
          /\ lora_joined = Bool2Py(radio_joined)
    /\ pc = "after_wait" => lora_joined = Bool2Py(radio_joined)

\* A wait whose loop saw the radio joined returns False, the answer of the
\* query after the loop.
C19_Witness ==
    /\ Ended("wait_for_lora_join") /\ last.outcome = "ok"
    /\ attempts >= 1 /\ i = attempts /\ seen_joined
    /\ last.ret = "False"

\* C20: against a radio whose joined status is monotone, a wait with a
\* budget of at least 1 returns only True, so start() never takes its
\* 'Could not join network' branch; only a budget of 0 can return False.
C20_MonotoneRadioJoins ==
    radio_kind = "monotone" =>
        /\ (Ended("wait_for_lora_join") /\ last.outcome = "ok"
               /\ attempts >= 1) => last.ret = "True"
        /\ pc = "after_wait" => lora_joined = "True"
        /\ (Ended("start") /\ last.outcome # "ValueError") =>
              lora_joined = "True"

\* Against a monotone radio a wait with a budget of at least 1 has run all
\* its iterations and returned True.
C20_Witness ==
    /\ radio_kind = "monotone"
    /\ Ended("wait_for_lora_join") /\ last.outcome = "ok"
    /\ attempts >= 1 /\ i = attempts /\ last.ret = "True"

TransferDone ==
    (Ended("lora_send") \/ Ended("lora_receive")) /\ last.outcome = "ok"

\* C14: send returns exactly the byte count the socket accepted, receive
\* returns exactly the payload and port the socket delivered; an echoing
\* socket gives back the payload just sent, an empty payload sends 0 bytes
\* and a receive without data returns an empty payload, none as an error.
C14_TransferFaithful ==
    /\ []((Ended("lora_send") /\ last.outcome = "ok") =>
             /\ last.sent = socket_out.accepted
             /\ calls[Len(calls)].arg = <<(<<>>)>> => last.sent = 0)
    /\ []((Ended("lora_receive") /\ last.outcome = "ok") =>
             /\ last.rx = socket_out.rx
             /\ last.port = socket_out.port)
    /\ [][(/\ socket_kind = "echo"
           /\ Ended("lora_send") /\ last.outcome = "ok"
           /\ Ended("lora_receive")' /\ last'.outcome = "ok") =>
             last'.rx = calls[Len(calls)].arg[1]]_vars

\* A socket that is not an echo accepted only part of a payload and send
\* returned that count.
C14_Witness ==
    /\ Ended("lora_send") /\ last.outcome = "ok"
    /\ socket_kind = "any"
    /\ calls[Len(calls)].arg = <<(<<1, 2>>)>>
    /\ last.sent = 1

\* C15 as stated: every send and every receive is followed by a delay of
\* one and the same length, whichever of the two operations ran.
C15_SameDelay ==
    [][(TransferDone /\ TransferDone') => slept' = slept]_vars

\* C15 as amended: a send that returns is followed by a delay of 0.2 s and
\* a receive that returns by a delay of 6 s; neither depends on the
\* payload, on whether data was received or on the operations before.
C15_FixedDelayPerOperation ==
    /\ (Ended("lora_send") /\ last.outcome = "ok") => slept = 2
    /\ (Ended("lora_receive") /\ last.outcome = "ok") => slept = 60

\* A receive that got no data has slept its 6 s all the same.
C15_Witness ==
    /\ Ended("lora_receive") /\ last.outcome = "ok"
    /\ last.rx = <<>> /\ slept = 60

\* C17: open requests the socket, applies the configured datarate exactly
\* once, sets the socket non-blocking and only then marks it created: the
\* socket is never marked created with the datarate unset or while still
\* blocking, and the datarate of a socket never changes once applied.
C17_OpenSequence ==
    /\ [](lora_socket = "True" =>
             /\ socket # NoSocket
             /\ socket.dr = otaa_settings.datarate
             /\ socket.blocking = FALSE)
    /\ []((Ended("create_lora_socket") /\ last.outcome = "ok") =>
             /\ OpsSince = <<"socket", "setsockopt", "setblocking">>
             /\ calls[mark + 2].arg = <<(<<otaa_settings.datarate>>)>>
             /\ lora_socket = "True")
    /\ [][(socket'.id = socket.id /\ socket.dr # -1) =>
             socket'.dr = socket.dr]_vars

\* open has run to its end with the datarate 5.
C17_Witness ==
    /\ Ended("create_lora_socket") /\ last.outcome = "ok"
    /\ lora_socket = "True"
    /\ socket.dr = 5 /\ socket.blocking = FALSE

\* C18: begin_join, wait_for_join, open, send and receive leave the
\* credentials and the rest of the settings unchanged.
C18_SettingsUnchanged == [][otaa_settings' = otaa_settings]_vars

\* A join with a device identifier, an open and a send have all run.
C18_Witness ==
    /\ Ended("lora_send") /\ last.outcome = "ok"
    /\ otaa_settings.device_eui = <<"A", "A", "1", "1">>
    /\ Len(SelectSeq(calls, LAMBDA c : c.op = "join")) >= 1
    /\ Len(SocketRequests) >= 1

====
